---- MODULE Spec2Model ----
(***************************************************************************)
(* Model of the file Q&A chat demo: the backend's chunkFileContent and     *)
(* POST /api/chat handler (src/src/server.js) and the React client's       *)
(* fetchWithBackoff, handleFileChange and handleSendMessage (the App       *)
(* component that follows the Dockerfile text in src/Dockerfile).          *)
(*                                                                         *)
(* JavaScript strings are sequences of one-character strings.              *)
(***************************************************************************)
EXTENDS Integers, Sequences, FiniteSets, TLC

\* ---------------------------------------------------------------- bounds
MaxLen == 5         \* longest document text given to chunkFileContent
MaxSize == 3        \* largest maxChunkSize given to chunkFileContent
MaxReqs == 2        \* POST /api/chat requests the backend handles concurrently
MaxHistory == 4     \* a question is sent only while its reply still fits this many messages
MaxReads == 1       \* FileReaders that are reading at the same time

\* ------------------------------------------------------- text primitives
NL == "\n"
Chars == {"a", "b", ".", " ", NL}

\* \s of the regular expression and the characters String.prototype.trim removes
IsSpace(c) == c \in {" ", NL, "\t"}

\* the character class [.?!] of the lookbehind
IsTerminator(c) == c \in {".", "?", "!"}

RECURSIVE SeqsUpTo(_, _)
SeqsUpTo(S, n) ==
    IF n = 0 THEN {<<>>}
    ELSE LET shorter == SeqsUpTo(S, n - 1)
         IN  shorter \cup {Append(s, c) : s \in {t \in shorter : Len(t) = n - 1}, c \in S}

RECURSIVE Concat(_)
Concat(ss) == IF ss = <<>> THEN <<>> ELSE Head(ss) \o Concat(Tail(ss))

RECURSIVE TrimStart(_)
TrimStart(s) == IF s # <<>> /\ IsSpace(Head(s)) THEN TrimStart(Tail(s)) ELSE s

RECURSIVE TrimEnd(_)
TrimEnd(s) ==
    IF s # <<>> /\ IsSpace(s[Len(s)]) THEN TrimEnd(SubSeq(s, 1, Len(s) - 1)) ELSE s

\* String.prototype.trim
Trim(s) == TrimEnd(TrimStart(s))

\* String.prototype.includes: c occurs contiguously in s
Includes(s, c) == \E k \in 0..(Len(s) - Len(c)) : SubSeq(s, k + 1, k + Len(c)) = c

\* ------------------------------------------------ text.split(/.../) of JS
\* the greedy \s* starting at position pos (0-based): the position it ends at
RECURSIVE SkipSpaces(_, _)
SkipSpaces(text, pos) ==
    IF pos < Len(text) /\ IsSpace(text[pos + 1]) THEN SkipSpaces(text, pos + 1) ELSE pos

\* one sticky match of /(\n\n|\n|(?<=[.?!]))\s*/ at position q (0-based):
\* whether it matches, the capture of group 1 and the end position
MatchAt(text, q) ==
    IF q + 2 <= Len(text) /\ text[q + 1] = NL /\ text[q + 2] = NL
    THEN [ok |-> TRUE, cap |-> <<NL, NL>>, e |-> SkipSpaces(text, q + 2)]
    ELSE IF q + 1 <= Len(text) /\ text[q + 1] = NL
    THEN [ok |-> TRUE, cap |-> <<NL>>, e |-> SkipSpaces(text, q + 1)]
    ELSE IF q >= 1 /\ IsTerminator(text[q])
    THEN [ok |-> TRUE, cap |-> <<>>, e |-> SkipSpaces(text, q)]
    ELSE [ok |-> FALSE, cap |-> <<>>, e |-> q]

\* the loop of RegExp.prototype[Symbol.split]: p is the end of the last
\* separator, q the position tried; the substrings and the captures are pushed
RECURSIVE SplitLoop(_, _, _, _)
SplitLoop(text, p, q, acc) ==
    IF q >= Len(text) THEN Append(acc, SubSeq(text, p + 1, Len(text)))
    ELSE LET m == MatchAt(text, q)
         IN  IF ~m.ok \/ m.e = p THEN SplitLoop(text, p, q + 1, acc)
             ELSE SplitLoop(text, m.e, m.e, acc \o <<SubSeq(text, p + 1, q), m.cap>>)

Split(text) == SplitLoop(text, 0, 0, <<>>)

\* .filter((s) => s.trim().length > 0)
NonBlank(s) == Len(Trim(s)) > 0

\* the sentence pieces of line 25
Sentences(text) == SelectSeq(Split(text), NonBlank)

\* --------------------------------------------------- chunkFileContent
\* line 30: the piece does not fit into the chunk being built
Overflows_IgnoresCurrent(currentChunk, sentence, maxChunkSize) ==
    Len(sentence) > maxChunkSize /\ Len(currentChunk) > 0

Overflows(currentChunk, sentence, maxChunkSize) ==
    Len(currentChunk) + Len(sentence) > maxChunkSize /\ Len(currentChunk) > 0

\* line 32: the chunk started after a push
StartChunk_Empty(sentence) == <<>>

StartChunk(sentence) == sentence

\* lines 29-39: the loop over the pieces and the final push
RECURSIVE ChunkLoop(_, _, _, _)
ChunkLoop(sentences, currentChunk, chunks, maxChunkSize) ==
    IF sentences = <<>>
    THEN IF Len(currentChunk) > 0 THEN Append(chunks, Trim(currentChunk)) ELSE chunks
    ELSE LET sentence == Head(sentences)
         IN  IF Overflows(currentChunk, sentence, maxChunkSize)
             THEN ChunkLoop(Tail(sentences), StartChunk(sentence),
                            Append(chunks, Trim(currentChunk)), maxChunkSize)
             ELSE ChunkLoop(Tail(sentences), currentChunk \o sentence, chunks, maxChunkSize)

chunkFileContent(text, maxChunkSize) ==
    IF text = <<>> THEN <<>> ELSE ChunkLoop(Sentences(text), <<>>, <<>>, maxChunkSize)

\* the pieces ss cut after the positions in cuts, each group concatenated
RECURSIVE Grouped(_, _, _, _, _)
Grouped(ss, cuts, k, cur, acc) ==
    IF k > Len(ss) THEN acc
    ELSE LET grown == cur \o ss[k]
         IN  IF k \in cuts \/ k = Len(ss)
             THEN Grouped(ss, cuts, k + 1, <<>>, Append(acc, grown))
             ELSE Grouped(ss, cuts, k + 1, grown, acc)

Groupings(ss) == {Grouped(ss, cuts, 1, <<>>, <<>>) : cuts \in SUBSET (1..(Len(ss) - 1))}

\* ------------------------------------------- values of the backend
\* line 23: the default value of the parameter maxChunkSize
DefaultMaxChunkSize == 500

\* the secret of process.env.GEMINI_API_KEY, one token of a string
KeyToken == "GEMINI_API_KEY value"

\* JSON values of a request body field: absent, a string, a number
Undefined == [type |-> "undefined", str |-> <<>>, num |-> 0]
Str(s) == [type |-> "string", str |-> s, num |-> 0]
Num(n) == [type |-> "number", str |-> <<>>, num |-> n]

\* JavaScript truthiness, as !fileContent and !userQuestion use it
Truthy_Defined(v) == v.type # "undefined"

Truthy(v) ==
    \/ v.type = "string" /\ v.str # <<>>
    \/ v.type = "number" /\ v.num # 0

\* the request bodies explored: each field absent, empty, a text, a number
FileContents == {Undefined, Str(<<>>), Str(<<"a", ".", " ", "b">>), Num(42)}
UserQuestions == {Undefined, Str(<<>>), Str(<<"q", "?">>)}

\* Array.prototype.join("\n---\n")
RECURSIVE Join(_)
Join(cs) ==
    IF cs = <<>> THEN <<>>
    ELSE IF Len(cs) = 1 THEN cs[1]
    ELSE cs[1] \o <<NL, "-", "-", "-", NL>> \o Join(Tail(cs))

\* what the external API may answer to one call
\* fetch rejects (network failure): the message of the error
FetchErrors == {<<"request to generativelanguage.googleapis.com failed">>}
\* a reply with a status that is not OK and its body, read by text()
ErrorStatuses == {400, 429, 500}
ErrorBodies == {<<"quota exceeded">>, <<"API key not valid: ", KeyToken>>}
\* an OK reply: a body that is no JSON, JSON without candidates, JSON with text
OkBodies ==
    {[json |-> FALSE, hasText |-> FALSE, text |-> <<>>],
     [json |-> TRUE, hasText |-> FALSE, text |-> <<>>],
     [json |-> TRUE, hasText |-> TRUE, text |-> <<"the answer">>],
     [json |-> TRUE, hasText |-> TRUE, text |-> <<"you sent ", KeyToken>>]}

NoCall == [made |-> FALSE, key |-> <<>>, question |-> Undefined, context |-> <<>>]
NoResponse == [status |-> 0, answer |-> <<>>, error |-> <<>>, details |-> <<>>]

\* lines 46, 52, 98, 101-103: the bodies of res.json
KeyNotSet == [status |-> 500, answer |-> <<>>,
              error |-> <<"GEMINI_API_KEY not set in environment.">>, details |-> <<>>]
MissingField == [status |-> 400, answer |-> <<>>,
                 error |-> <<"Missing fileContent or userQuestion in request body.">>,
                 details |-> <<>>]
Answer(t) == [status |-> 200, answer |-> t, error |-> <<>>, details |-> <<>>]
Failure(message) == [status |-> 500, answer |-> <<>>,
                     error |-> <<"An error occurred while processing the request.">>,
                     details |-> message]

\* line 90: the message of the error thrown for a reply that is not OK
GeminiFailed(status, errorBody) ==
    <<"Gemini API request failed: ", ToString(status), " - ">> \o errorBody

\* lines 94-96: the text of the first candidate, or the apology
AnswerText(result) ==
    IF result.hasText /\ result.text # <<>> THEN result.text
    ELSE <<"Sorry, I could not generate a response from the file content.">>

Reqs == 1..MaxReqs

\* -------------------------------------------- values of the client
\* lines 126-127 of fetchWithBackoff
maxRetries == 3
InitialDelay == 1000

\* the files the user may choose: a name and what readAsText gives
Files == {[name |-> "notes.txt", content |-> <<"some notes">>],
          [name |-> "empty.txt", content |-> <<>>]}

\* what the user may type into the question field
Inputs == {<<" ">>, <<"q", "?", " ">>, <<"r", "?">>}

\* the error state when no error is shown (useState(null), setError(null))
Null == <<>>

\* the messages of the chat history
Intro(name) ==
    [role |-> "ai",
     text |-> <<"File **", name, "** uploaded successfully. Ask me a question about its content!">>]
UserMessage(userQuestion) == [role |-> "user", text |-> userQuestion]
AiMessage(answer) == [role |-> "ai", text |-> answer]
ErrorMessage(message) ==
    [role |-> "ai",
     text |-> <<"**Server Error:** I couldn't process that request. Please check the backend server logs. (">>
                 \o message \o <<")">>]
ErrorState_Null(message) == Null

ErrorState(message) == <<"Failed to get answer from server. Details: ">> \o message

\* lines 184, 211, 217: the updater (prev) => [...prev, message]
AppendMessage_Replace(prev, message) == <<message>>

AppendMessage(prev, message) == Append(prev, message)

\* what one fetch of the backend may give: a rejection, or a response
\* with a status and a body (no JSON, or JSON with an error or an answer)
FetchRejections == {<<"Failed to fetch">>}
Body(json, err, answer) == [json |-> json, error |-> err, answer |-> answer]
Responses ==
    {[defined |-> TRUE, status |-> 200, body |-> Body(TRUE, <<>>, <<"it says so">>)],
     [defined |-> TRUE, status |-> 200, body |-> Body(TRUE, <<"upstream error">>, <<>>)],
     [defined |-> TRUE, status |-> 200, body |-> Body(FALSE, <<>>, <<>>)],
     [defined |-> TRUE, status |-> 429, body |-> Body(FALSE, <<>>, <<>>)],
     [defined |-> TRUE, status |-> 500,
      body |-> Body(TRUE, <<"An error occurred while processing the request.">>, <<>>)]}
UndefinedResponse == [defined |-> FALSE, status |-> 0, body |-> Body(FALSE, <<>>, <<>>)]

\* Response.ok
Ok(resp) == resp.status >= 200 /\ resp.status <= 299

\* line 132: a 429 that is waited for and retried
RateLimited_AnyAttempt(resp, i) == resp.status = 429

RateLimited(resp, i) == resp.status = 429 /\ i < maxRetries - 1

\* lines 135 and 149: delay *= 2
Doubled_Same(delay) == delay

Doubled(delay) == delay * 2

\* lines 139-142: the message of the error thrown for a response that is not OK
RequestFailed(resp) ==
    <<"API Request Failed: ", ToString(resp.status), " - ">>
        \o (IF resp.body.json THEN resp.body.error ELSE <<"statusText">>)

\* ------------------------------------------------------------- state
VARIABLES
    text,           \* chunkFileContent: the argument text
    maxChunkSize,   \* chunkFileContent: the argument maxChunkSize
    chunks,         \* chunkFileContent: the returned array
    chunkPc,        \* "call" before chunkFileContent has run, "done" after
    API_KEY,        \* server.js line 11: the key, <<>> when not set
    srvPc,          \* per request: where the handler of /api/chat stands
    reqBody,        \* per request: req.body
    extCall,        \* per request: the fetch to the external API
    extStatus,      \* per request: the status of geminiResponse
    response,       \* per request: what res.json has sent
    reqLog,         \* per request: the events of the request, in order
    fileContent,    \* App: useState("")
    fileName,       \* App: useState("")
    chatHistory,    \* App: useState([])
    isLoading,      \* App: useState(false)
    userInput,      \* App: useState("")
    error,          \* App: useState(null)
    readers,        \* the FileReaders that are reading: how many per file
    sendPc,         \* where handleSendMessage and its fetchWithBackoff stand
    userQuestion,   \* handleSendMessage: the constant userQuestion
    i,              \* fetchWithBackoff: the loop counter
    delay,          \* fetchWithBackoff: the variable delay
    attempts,       \* the calls of fetch made by the current fetchWithBackoff
    waits,          \* the delays of setTimeout of the current fetchWithBackoff
    consoleLog,     \* the console.warn and console.error of the current fetchWithBackoff
    fbResult,       \* what fetchWithBackoff returned
    fbError         \* the message of the error fetchWithBackoff threw

chunkVars == <<text, maxChunkSize, chunks, chunkPc>>
serverVars == <<API_KEY, srvPc, reqBody, extCall, extStatus, response, reqLog>>

appVars == <<fileContent, fileName, chatHistory, isLoading, userInput, error>>
callVars == <<sendPc, userQuestion, i, delay, attempts, waits, consoleLog, fbResult, fbError>>
clientVars == <<appVars, readers, callVars>>

vars == <<chunkVars, serverVars, clientVars>>

ChunkIdle ==
    /\ text = <<>>
    /\ maxChunkSize = DefaultMaxChunkSize
    /\ chunks = <<>>
    /\ chunkPc = "call"

ServerIdle ==
    /\ srvPc = [r \in Reqs |-> "none"]
    /\ reqBody = [r \in Reqs |-> [fileContent |-> Undefined, userQuestion |-> Undefined]]
    /\ extCall = [r \in Reqs |-> NoCall]
    /\ extStatus = [r \in Reqs |-> 0]
    /\ response = [r \in Reqs |-> NoResponse]
    /\ reqLog = [r \in Reqs |-> <<>>]

ClientIdle ==
    /\ fileContent = <<>>
    /\ fileName = ""
    /\ chatHistory = <<>>
    /\ isLoading = FALSE
    /\ userInput = <<>>
    /\ error = Null
    /\ readers = [f \in Files |-> 0]
    /\ sendPc = "idle"
    /\ userQuestion = <<>>
    /\ i = 0
    /\ delay = InitialDelay
    /\ attempts = 0
    /\ waits = <<>>
    /\ consoleLog = <<>>
    /\ fbResult = UndefinedResponse
    /\ fbError = <<>>

\* ------------------------------------- chunkFileContent as a function
InitChunk ==
    /\ text \in SeqsUpTo(Chars, MaxLen)
    /\ maxChunkSize \in 1..MaxSize
    /\ chunks = <<>>
    /\ chunkPc = "call"
    /\ API_KEY = <<>>
    /\ ServerIdle
    /\ ClientIdle

CallChunkFileContent ==
    /\ chunkPc = "call"
    /\ chunks' = chunkFileContent(text, maxChunkSize)
    /\ chunkPc' = "done"
    /\ UNCHANGED <<text, maxChunkSize, serverVars, clientVars>>

NextChunk == CallChunkFileContent

SpecChunk == InitChunk /\ [][NextChunk]_vars

\* ------------------------------------------ app.post("/api/chat")
InitServer ==
    /\ ChunkIdle
    /\ API_KEY \in {<<>>, <<KeyToken>>}
    /\ ServerIdle
    /\ ClientIdle

\* res.status(..).json(..): the response of request r and the end of its handler
Respond(r, resp, events) ==
    /\ response' = [response EXCEPT ![r] = resp]
    /\ reqLog' = [reqLog EXCEPT ![r] = @ \o events \o <<"response">>]
    /\ srvPc' = [srvPc EXCEPT ![r] = "responded"]

\* lines 44-86: a request arrives and the handler runs up to its first await
Receive(r, fc, uq) ==
    /\ srvPc[r] = "none"
    /\ reqBody' = [reqBody EXCEPT ![r] = [fileContent |-> fc, userQuestion |-> uq]]
    /\ IF API_KEY = <<>>
       THEN Respond(r, KeyNotSet, <<"request">>) /\ UNCHANGED extCall
       ELSE IF ~Truthy(fc) \/ ~Truthy(uq)
       THEN Respond(r, MissingField, <<"request">>) /\ UNCHANGED extCall
       ELSE IF fc.type # "string"
       \* text.split is no function of a number: chunkFileContent throws, line 99 catches
       THEN Respond(r, Failure(<<"text.split is not a function">>), <<"request", "chunk">>)
            /\ UNCHANGED extCall
       ELSE /\ extCall' = [extCall EXCEPT ![r] =
                    [made |-> TRUE, key |-> API_KEY, question |-> uq,
                     context |-> Join(chunkFileContent(fc.str, DefaultMaxChunkSize))]]
            /\ reqLog' = [reqLog EXCEPT ![r] = @ \o <<"request", "chunk", "extCall">>]
            /\ srvPc' = [srvPc EXCEPT ![r] = "awaitFetch"]
            /\ UNCHANGED response
    /\ UNCHANGED <<chunkVars, clientVars, API_KEY, extStatus>>

\* line 79: fetch rejects, the catch of line 99 responds
FetchRejects(r, message) ==
    /\ srvPc[r] = "awaitFetch"
    /\ Respond(r, Failure(message), <<"extFail">>)
    /\ UNCHANGED <<chunkVars, clientVars, API_KEY, reqBody, extCall, extStatus>>

\* line 79: fetch resolves with a response of the given status
FetchResolves(r, status) ==
    /\ srvPc[r] = "awaitFetch"
    /\ extStatus' = [extStatus EXCEPT ![r] = status]
    /\ reqLog' = [reqLog EXCEPT ![r] = Append(@, "extReply")]
    /\ srvPc' = [srvPc EXCEPT ![r] = "awaitBody"]
    /\ UNCHANGED <<chunkVars, clientVars, API_KEY, reqBody, extCall, response>>

\* lines 88-91, 99-104: the body of a reply that is not OK has been read
ErrorBodyRead(r, errorBody) ==
    /\ srvPc[r] = "awaitBody"
    /\ extStatus[r] # 200
    /\ Respond(r, Failure(GeminiFailed(extStatus[r], errorBody)), <<>>)
    /\ UNCHANGED <<chunkVars, clientVars, API_KEY, reqBody, extCall, extStatus>>

\* lines 93-104: the body of an OK reply has been read and parsed
OkBodyRead(r, result) ==
    /\ srvPc[r] = "awaitBody"
    /\ extStatus[r] = 200
    /\ IF result.json
       THEN Respond(r, Answer(AnswerText(result)), <<>>)
       ELSE Respond(r, Failure(<<"invalid json response body">>), <<>>)
    /\ UNCHANGED <<chunkVars, clientVars, API_KEY, reqBody, extCall, extStatus>>

NextServer ==
    \/ \E r \in Reqs, fc \in FileContents, uq \in UserQuestions : Receive(r, fc, uq)
    \/ \E r \in Reqs, message \in FetchErrors : FetchRejects(r, message)
    \/ \E r \in Reqs, status \in ErrorStatuses \cup {200} : FetchResolves(r, status)
    \/ \E r \in Reqs, errorBody \in ErrorBodies : ErrorBodyRead(r, errorBody)
    \/ \E r \in Reqs, result \in OkBodies : OkBodyRead(r, result)

SpecServer == InitServer /\ [][NextServer]_vars


\* ------------------------------------------------------ the App component
InitClient ==
    /\ ChunkIdle
    /\ API_KEY = <<>>
    /\ ServerIdle
    /\ ClientIdle

ReadersCount == readers[CHOOSE f \in Files : f.content = <<>>]
                    + readers[CHOOSE f \in Files : f.content # <<>>]

\* lines 154-175: the user chooses a file (nothing happens when none is chosen)
HandleFileChange(file) ==
    /\ ReadersCount < MaxReads
    /\ fileName' = file.name
    /\ chatHistory' = <<>>
    /\ readers' = [readers EXCEPT ![file] = @ + 1]
    /\ UNCHANGED <<fileContent, isLoading, userInput, error, callVars>>
    /\ UNCHANGED <<chunkVars, serverVars>>

\* lines 160-169: reader.onload
ReaderOnload(file) ==
    /\ readers[file] > 0
    /\ readers' = [readers EXCEPT ![file] = @ - 1]
    /\ fileContent' = file.content
    /\ chatHistory' = <<Intro(file.name)>>
    /\ UNCHANGED <<fileName, isLoading, userInput, error, callVars>>
    /\ UNCHANGED <<chunkVars, serverVars>>

\* lines 170-172: reader.onerror
ReaderOnerror(file) ==
    /\ readers[file] > 0
    /\ readers' = [readers EXCEPT ![file] = @ - 1]
    /\ error' = <<"Error reading file.">>
    /\ UNCHANGED <<fileContent, fileName, chatHistory, isLoading, userInput, callVars>>
    /\ UNCHANGED <<chunkVars, serverVars>>

\* lines 331-338: the user types; the field is disabled while loading or without a file
SetUserInput(value) ==
    /\ ~(isLoading \/ fileContent = <<>>)
    /\ value # userInput
    /\ userInput' = value
    /\ UNCHANGED <<fileContent, fileName, chatHistory, isLoading, error, readers, callVars>>
    /\ UNCHANGED <<chunkVars, serverVars>>

\* lines 177-196, 125-129: the form is submitted and passes the guard of line 179;
\* the handler runs up to the first fetch of fetchWithBackoff
HandleSendMessage ==
    /\ ~(Trim(userInput) = <<>> \/ isLoading \/ fileContent = <<>>)
    /\ Len(chatHistory) + 2 <= MaxHistory
    /\ userQuestion' = Trim(userInput)
    /\ chatHistory' = AppendMessage(chatHistory, UserMessage(Trim(userInput)))
    /\ userInput' = <<>>
    /\ isLoading' = TRUE
    /\ error' = Null
    /\ i' = 0
    /\ delay' = InitialDelay
    /\ attempts' = 0
    /\ waits' = <<>>
    /\ consoleLog' = <<>>
    /\ fbResult' = UndefinedResponse
    /\ fbError' = <<>>
    /\ sendPc' = "fetch"
    /\ UNCHANGED <<fileContent, fileName, readers>>
    /\ UNCHANGED <<chunkVars, serverVars>>

\* lines 145-150: the catch of one attempt, entered with the error e
Caught(message) ==
    IF i = maxRetries - 1
    THEN /\ sendPc' = "thrown"
         /\ fbError' = message
         /\ UNCHANGED consoleLog
    ELSE /\ sendPc' = "retryWait"
         /\ consoleLog' = Append(consoleLog, "Fetch attempt failed, retrying:")
         /\ UNCHANGED fbError

\* line 131: the fetch of this attempt rejects
FetchRejected(message) ==
    /\ sendPc = "fetch"
    /\ attempts' = attempts + 1
    /\ Caught(message)
    /\ UNCHANGED <<appVars, readers, userQuestion, i, delay, waits, fbResult>>
    /\ UNCHANGED <<chunkVars, serverVars>>

\* lines 131-144: the fetch of this attempt resolves with a response
FetchResolved(resp) ==
    /\ sendPc = "fetch"
    /\ attempts' = attempts + 1
    /\ IF RateLimited(resp, i)
       THEN /\ sendPc' = "rateLimitWait"
            /\ consoleLog' = Append(consoleLog, "Rate limit hit. Retrying")
            /\ UNCHANGED <<fbResult, fbError>>
       ELSE IF ~Ok(resp)
       THEN Caught(RequestFailed(resp)) /\ UNCHANGED fbResult
       ELSE sendPc' = "returned" /\ fbResult' = resp /\ UNCHANGED <<fbError, consoleLog>>
    /\ UNCHANGED <<appVars, readers, userQuestion, i, delay, waits>>
    /\ UNCHANGED <<chunkVars, serverVars>>

\* the end of one round of the for loop of line 129: i++ and the test
\* i < maxRetries; the function returns undefined when the loop ends
NextRound ==
    /\ i' = i + 1
    /\ IF i + 1 < maxRetries
       THEN sendPc' = "fetch" /\ UNCHANGED fbResult
       ELSE sendPc' = "returned" /\ fbResult' = UndefinedResponse

\* lines 134-136: the timer of the rate limit branch fires, continue
RateLimitTimerFires ==
    /\ sendPc = "rateLimitWait"
    /\ waits' = Append(waits, delay)
    /\ delay' = Doubled(delay)
    /\ NextRound
    /\ UNCHANGED <<appVars, readers, userQuestion, attempts, consoleLog, fbError>>
    /\ UNCHANGED <<chunkVars, serverVars>>

\* lines 148-150: the timer of the catch fires
RetryTimerFires ==
    /\ sendPc = "retryWait"
    /\ waits' = Append(waits, delay)
    /\ delay' = Doubled(delay)
    /\ NextRound
    /\ UNCHANGED <<appVars, readers, userQuestion, attempts, consoleLog, fbError>>
    /\ UNCHANGED <<chunkVars, serverVars>>

\* lines 202-208: whether the try block of handleSendMessage throws, and with what
ThrownInTry ==
    IF sendPc = "thrown" THEN fbError
    ELSE IF ~fbResult.defined
    THEN <<"Cannot read properties of undefined (reading 'json')">>
    ELSE IF ~fbResult.body.json THEN <<"Unexpected token in JSON">>
    ELSE fbResult.body.error

\* lines 196-226: fetchWithBackoff is over and handleSendMessage goes on
\* through its try, catch and finally
SendSettles ==
    /\ sendPc \in {"returned", "thrown"}
    /\ IF ThrownInTry # <<>>
       THEN /\ error' = ErrorState(ThrownInTry)
            /\ chatHistory' = AppendMessage(chatHistory, ErrorMessage(ThrownInTry))
       ELSE /\ chatHistory' = AppendMessage(chatHistory, AiMessage(fbResult.body.answer))
            /\ UNCHANGED error
    /\ isLoading' = FALSE
    /\ sendPc' = "idle"
    /\ UNCHANGED <<fileContent, fileName, userInput, readers,
                   userQuestion, i, delay, attempts, waits, consoleLog, fbResult, fbError>>
    /\ UNCHANGED <<chunkVars, serverVars>>

NextClient ==
    \/ \E file \in Files : HandleFileChange(file)
    \/ \E file \in Files : ReaderOnload(file)
    \/ \E file \in Files : ReaderOnerror(file)
    \/ \E value \in Inputs : SetUserInput(value)
    \/ HandleSendMessage
    \/ \E message \in FetchRejections : FetchRejected(message)
    \/ \E resp \in Responses : FetchResolved(resp)
    \/ RateLimitTimerFires
    \/ RetryTimerFires
    \/ SendSettles

SpecClient == InitClient /\ [][NextClient]_vars

\* a fetch that was started settles and a timer that was set fires
FetchSettles ==
    \/ \E message \in FetchRejections : FetchRejected(message)
    \/ \E resp \in Responses : FetchResolved(resp)

FairSpecClient ==
    /\ SpecClient
    /\ WF_vars(FetchSettles)
    /\ WF_vars(RateLimitTimerFires)
    /\ WF_vars(RetryTimerFires)

\* ------------------------------------------------------------ claims
\* C1 (as stated): the returned chunks are the sentence pieces themselves,
\* grouped in document order: each chunk is the concatenation of a run of
\* consecutive pieces, every piece in exactly one chunk.
C1_ChunksArePieceGroups ==
    chunkPc = "done" => chunks \in Groupings(Sentences(text))

\* C1 (amended): the returned chunks are the sentence pieces grouped in
\* document order, each group concatenated and then trimmed of the white
\* space at its two ends; no piece is dropped, duplicated or reordered.
C1_ChunksAreTrimmedPieceGroups ==
    chunkPc = "done" =>
        \E g \in Groupings(Sentences(text)) :
            /\ Len(chunks) = Len(g)
            /\ \A c \in 1..Len(g) : chunks[c] = Trim(g[c])

\* C1 witness: several chunks, one of them built of several pieces, and the
\* trimming has removed white space of a piece
C1_Witness ==
    /\ chunkPc = "done"
    /\ Len(chunks) >= 2
    /\ Len(Sentences(text)) > Len(chunks)
    /\ Concat(chunks) # Concat(Sentences(text))

\* C2 (as stated): every returned chunk occurs contiguously in the text.
C2_ChunkIsSubstring ==
    chunkPc = "done" => \A c \in 1..Len(chunks) : Includes(text, chunks[c])

\* C3: no returned chunk is empty, and a returned chunk longer than
\* maxChunkSize is a single sentence piece that is itself longer than
\* maxChunkSize (so a chunk of two or more pieces is at most maxChunkSize long).
C3_SoftMaximum ==
    chunkPc = "done" =>
        \A c \in 1..Len(chunks) :
            /\ Len(chunks[c]) > 0
            /\ Len(chunks[c]) > maxChunkSize =>
                   \E k \in 1..Len(Sentences(text)) :
                       /\ Len(Sentences(text)[k]) > maxChunkSize
                       /\ chunks[c] = Trim(Sentences(text)[k])

\* C3 witness: a chunk over the maximum next to a chunk of two pieces
C3_Witness ==
    /\ chunkPc = "done"
    /\ \E c \in 1..Len(chunks) : Len(chunks[c]) > maxChunkSize
    /\ Len(Sentences(text)) > Len(chunks)
    /\ Len(chunks) >= 2

\* a request that the checks of lines 45 and 51 let pass
PassedValidation(r) ==
    /\ API_KEY # <<>>
    /\ Truthy(reqBody[r].fileContent)
    /\ Truthy(reqBody[r].userQuestion)

\* C8 (as stated): a request that passed validation and has been answered
\* went through exactly client request, external call, external reply (or
\* failure), backend response, in this order; before the response it has
\* made at most the one call.
C8_OneWayFlow ==
    \A r \in Reqs :
        /\ srvPc[r] = "responded" /\ PassedValidation(r) =>
               reqLog[r] \in {<<"request", "chunk", "extCall", "extReply", "response">>,
                              <<"request", "chunk", "extCall", "extFail", "response">>}
        /\ srvPc[r] \in {"awaitFetch", "awaitBody"} =>
               /\ response[r] = NoResponse
               /\ extCall[r].made

\* the tokens of the three fields of a response body
BodyTokens(resp) ==
    {resp.answer[c] : c \in 1..Len(resp.answer)}
        \cup {resp.error[c] : c \in 1..Len(resp.error)}
        \cup {resp.details[c] : c \in 1..Len(resp.details)}

\* C9 (as stated): no response body sent to the client contains the API key.
C9_KeyNeverInResponse ==
    \A r \in Reqs : KeyToken \notin BodyTokens(response[r])

IsPrefix(a, b) == Len(a) <= Len(b) /\ SubSeq(b, 1, Len(a)) = a

\* C4 (as stated): in every step the chat history before the step is a
\* prefix of the chat history after it.
C4_AppendOnly == [][IsPrefix(chatHistory, chatHistory')]_vars

\* C4 (amended): in every step that neither starts nor ends the reading of a
\* file (a send, a backend response, typing, a retry) the chat history before
\* the step is a prefix of the chat history after it.
C4_AppendOnlyBetweenUploads ==
    [][readers' = readers => IsPrefix(chatHistory, chatHistory')]_vars

\* C4 witness: the history has grown by a question and its reply
C4_Witness ==
    /\ sendPc = "idle"
    /\ Len(chatHistory) >= 3
    /\ chatHistory[Len(chatHistory) - 1].role = "user"

\* a message that replies to a question: not of the user, not the introduction
IsReply(m) == m.role = "ai" /\ m \notin {Intro(f.name) : f \in Files}

\* C5 (as stated): every reply in the chat history is directly preceded by
\* a question of the user.
C5_ReplyFollowsQuestion ==
    \A k \in 1..Len(chatHistory) :
        IsReply(chatHistory[k]) => k > 1 /\ chatHistory[k - 1].role = "user"

\* the step in which handleSendMessage ends, after fetchWithBackoff
Settling == sendPc \in {"returned", "thrown"} /\ sendPc' = "idle"

\* what every end of handleSendMessage does: one message of the assistant
\* is appended and isLoading is false
OneReplyAppended ==
    /\ isLoading' = FALSE
    /\ Len(chatHistory') = Len(chatHistory) + 1
    /\ IsPrefix(chatHistory, chatHistory')
    /\ chatHistory'[Len(chatHistory')].role # "user"

\* C6 (as stated): when a send ends in failure the error state becomes a
\* message, one error message of the assistant is appended and isLoading is
\* false; when it ends in success the error state is null and one answer is
\* appended.
C6_FailureShown ==
    [][Settling =>
        /\ OneReplyAppended
        /\ IF ThrownInTry # <<>>
           THEN /\ error' # Null
                /\ chatHistory'[Len(chatHistory')] = ErrorMessage(ThrownInTry)
           ELSE /\ error' = Null
                /\ chatHistory'[Len(chatHistory')] = AiMessage(fbResult.body.answer)]_vars

\* C6 (amended): as stated for a failure; when a send ends in success
\* handleSendMessage leaves the error state as it is, which is null unless
\* reader.onerror has reported a read error since the send, and one answer
\* is appended.
C6_FailureShownErrorKept ==
    [][Settling =>
        /\ OneReplyAppended
        /\ IF ThrownInTry # <<>>
           THEN /\ error' # Null
                /\ chatHistory'[Len(chatHistory')] = ErrorMessage(ThrownInTry)
           ELSE /\ error' = error
                /\ error \in {Null, <<"Error reading file.">>}
                /\ chatHistory'[Len(chatHistory')] = AiMessage(fbResult.body.answer)]_vars

\* C6 witness: a send has failed after the last attempt and is shown
C6_Witness ==
    /\ sendPc = "idle"
    /\ attempts = maxRetries
    /\ ~isLoading
    /\ error # Null
    /\ chatHistory # <<>>
    /\ chatHistory[Len(chatHistory)] = ErrorMessage(fbError)

InLoop == sendPc \in {"fetch", "rateLimitWait", "retryWait"}

\* C7: one call of fetchWithBackoff makes at most 3 fetch attempts, what it
\* returns is a response whose ok flag is true, what it throws is an error,
\* and a call that is in its loop ends by returning or throwing.
C7_BoundedRetry ==
    /\ [](/\ attempts <= 3
          /\ InLoop => i < 3 /\ attempts \in {i, i + 1}
          /\ sendPc = "returned" => fbResult.defined /\ Ok(fbResult)
          /\ sendPc = "thrown" => fbError # <<>>)
    /\ (InLoop ~> sendPc \in {"returned", "thrown"})

\* C7 witness: the third attempt has failed and the call has thrown
C7_Witness == sendPc = "thrown" /\ attempts = 3

RECURSIVE Sum(_)
Sum(ws) == IF ws = <<>> THEN 0 ELSE Head(ws) + Sum(Tail(ws))

\* C10: within one call the wait before the second attempt is 1000 ms and the
\* wait before the third is 2000 ms whatever made the attempt fail, every
\* attempt but the first follows one wait, there is no wait after the third
\* attempt, and the waits of a call sum to at most 3000 ms.
C10_ExponentialBackoff ==
    /\ IsPrefix(waits, <<1000, 2000>>)
    /\ sendPc = "fetch" => Len(waits) = attempts
    /\ sendPc \in {"rateLimitWait", "retryWait"} => attempts < 3
    /\ Sum(waits) <= 3000

\* C10 witness: a 429 and then another failure have both been waited for
C10_Witness ==
    /\ waits = <<1000, 2000>>
    /\ consoleLog = <<"Rate limit hit. Retrying", "Fetch attempt failed, retrying:">>
    /\ attempts = 3

\* a body field that is missing or the empty string
MissingOrEmpty(v) == v.type = "undefined" \/ (v.type = "string" /\ Len(v.str) = 0)

\* a request that was answered without chunking and without an external call
RejectedEarly(r, status) ==
    /\ srvPc[r] = "responded"
    /\ response[r].status = status
    /\ response[r].error # <<>>
    /\ reqLog[r] = <<"request", "response">>
    /\ ~extCall[r].made

\* C11: a request that has arrived while the API key is not set is answered
\* with status 500 whatever its body is; with the key set, a request whose
\* fileContent or userQuestion is missing or empty is answered with status
\* 400; in both cases the text was not chunked and no external call was made.
C11_RejectedBeforeExternalCall ==
    \A r \in Reqs :
        srvPc[r] # "none" =>
            /\ API_KEY = <<>> => RejectedEarly(r, 500)
            /\ (/\ API_KEY # <<>>
                /\ \/ MissingOrEmpty(reqBody[r].fileContent)
                   \/ MissingOrEmpty(reqBody[r].userQuestion)) => RejectedEarly(r, 400)

\* C11 witness: with the key set, a request with an empty fileContent and a
\* question has been answered with status 400
C11_Witness ==
    \E r \in Reqs :
        /\ API_KEY # <<>>
        /\ reqBody[r].fileContent = Str(<<>>)
        /\ reqBody[r].userQuestion = Str(<<"q", "?">>)
        /\ response[r].status = 400

====
